---- MODULE Spec2Model ----
(***************************************************************************)
(* Model of mt5_ai_assistant: core/risk_manager.py (class RiskManager),    *)
(* core/strategies (BaseStrategy and its three variants), the trading loop *)
(* of ui/main_window.py, and MT5Client.get_historical_data with the cache  *)
(* of core/database.py.                                                    *)
(*                                                                         *)
(* Units.  Percentages are whole percents.  Money is counted in cents      *)
(* (1/100 of the account currency), except an account's balance and equity *)
(* which are whole currency units, so that balance * pct is the exact      *)
(* value of balance * (pct / 100) in cents.  Volumes are counted in        *)
(* hundredths of a lot.  Stop distances, prices and tick values are whole  *)
(* numbers.  Decimal(str(x)) is exact on all of these, and every Decimal   *)
(* operation rounds its exact result to Prec significant digits            *)
(* (ROUND_HALF_EVEN), which DecRound and DecDiv reproduce.                 *)
(***************************************************************************)
EXTENDS Integers, Sequences, FiniteSets, TLC

VARIABLES
    risk_per_trade,     \* RiskManager._risk_per_trade
    risk_all_trades,    \* RiskManager._risk_all_trades
    daily_risk,         \* RiskManager._daily_risk
    daily_loss_limit,   \* RiskManager.daily_loss_limit (cents)
    daily_profit,       \* RiskManager.daily_profit (cents)
    today,              \* RiskManager.today (day number)
    ret,                \* the last call: operation, arguments, what the
                        \* providers answered, and the outcome
    connected,          \* the connected flag of the MT5 client
    enabled,            \* BaseStrategy.enabled of each variant
    sret,               \* the last call on the client or on a strategy
    is_running,         \* TradingAssistantApp.is_running
    bar,                \* number of the latest completed bar of EURUSD H1
    market,             \* what get_historical_data returns for that bar
    acted,              \* per strategy, the signals handed to
                        \* _process_signal since that bar completed
    lastTick,           \* the last invocation of the trading loop
    database,           \* MT5Client._database is set
    cache,              \* per (symbol, timeframe), the bars in market_data
    dret                \* the last call of get_historical_data

vars == <<risk_per_trade, risk_all_trades, daily_risk,
          daily_loss_limit, daily_profit, today, ret,
          connected, enabled, sret,
          is_running, bar, market, acted, lastTick,
          database, cache, dret>>

dataVars == <<database, cache, dret>>

strategyVars == <<connected, enabled, sret>>

loopVars == <<is_running, bar, market, acted, lastTick>>

riskState == <<risk_per_trade, risk_all_trades, daily_risk,
               daily_loss_limit, daily_profit, today>>

\* getcontext().prec
Prec == 6

\* Last day number date.today() takes in the model.
MaxDay == 2

-----------------------------------------------------------------------------
(* decimal arithmetic under getcontext().prec *)

Abs(n) == IF n < 0 THEN -n ELSE n

RECURSIVE Pow10(_)
Pow10(k) == IF k <= 0 THEN 1 ELSE 10 * Pow10(k - 1)

RECURSIVE NumDigits(_)
NumDigits(n) == IF n < 10 THEN 1 ELSE 1 + NumDigits(n \div 10)

\* The result of a Decimal operation whose exact value is n (in any fixed
\* unit): n rounded half-even to Prec significant digits.
DecRound(n) ==
    LET a == Abs(n)
        d == NumDigits(a)
    IN  IF d <= Prec THEN n
        ELSE LET p  == Pow10(d - Prec)
                 q  == a \div p
                 r  == a % p
                 up == (2 * r > p) \/ (2 * r = p /\ q % 2 = 1)
                 m  == (IF up THEN q + 1 ELSE q) * p
             IN  IF n < 0 THEN -m ELSE m

\* The quotient a / b of two Decimals (a >= 0, b > 0, both in the same
\* unit) as [c, k], the value c / 10^k: exact when that takes no more than
\* Prec significant digits, otherwise rounded half-even to Prec of them.
RECURSIVE LongDiv(_, _, _, _)
LongDiv(c, r, k, b) ==
    IF r = 0 THEN [c |-> c, k |-> k]
    ELSE IF c # 0 /\ NumDigits(c) >= Prec
        THEN [c |-> IF 2 * r > b \/ (2 * r = b /\ c % 2 = 1)
                    THEN c + 1 ELSE c,
              k |-> k]
    ELSE LongDiv(c * 10 + (r * 10) \div b, (r * 10) % b, k + 1, b)

DecDiv(a, b) ==
    LET q == a \div b
        r == a % b
    IN  IF NumDigits(q) > Prec
        THEN LET p  == Pow10(NumDigits(q) - Prec)
                 hi == q \div p
                 lo == q % p
                 up == \/ 2 * lo > p
                       \/ 2 * lo = p /\ (r > 0 \/ hi % 2 = 1)
             IN  [c |-> (IF up THEN hi + 1 ELSE hi) * p, k |-> 0]
        ELSE LongDiv(q, r, 0, b)

\* x * (pct / Decimal('100')): exact in cents, then rounded.
DecMulPct(x, pct) == DecRound(x * pct)

-----------------------------------------------------------------------------
(* what the providers answer *)

\* mt5_client.get_account_info(): a snapshot ("ok"), a falsy value ("none"),
\* or an exception ("raise"); "unread" when the call does not get as far as
\* asking.  has_currency: the snapshot has a 'currency' key.
Account(st, bal, eq, cur) ==
    [status |-> st, balance |-> bal, equity |-> eq, has_currency |-> cur]

AccountInputs ==
    { Account("raise", 0, 0, FALSE),
      Account("none", 0, 0, FALSE),
      Account("ok", 10000, 9500, TRUE),
      Account("ok", 1234567, 1234567, TRUE) }

AccountUnread == Account("unread", 0, 0, FALSE)

AccountAnswers(asked) == IF asked THEN AccountInputs ELSE {AccountUnread}

\* mt5.positions_get(): a tuple of positions (empty also stands for None,
\* which the code treats alike), or an exception.
Position(sym, vol, price, pnl) ==
    [symbol |-> sym, volume |-> vol, price_current |-> price, profit |-> pnl]

Positions(st, items) == [status |-> st, items |-> items]

PositionInputs ==
    { Positions("raise", <<>>),
      Positions("ok", <<>>),
      Positions("ok", <<Position("EURUSD", 100, 2, -100000)>>),
      Positions("ok", <<Position("EURUSD", 100, 2, -100000),
                        Position("XAUUSD", 10, 20, 1)>>),
      Positions("ok", <<Position("EURUSD", 100, 2, 1234575),
                        Position("XAUUSD", 10, 20, -1234576)>>) }

\* mt5.history_orders_get(current_date, now): orders with their profit and
\* the day of their time_setup, or an exception.
Order(pnl, day) == [profit |-> pnl, day |-> day]

History(st, items) == [status |-> st, items |-> items]

HistoryInputs(d) ==
    { History("raise", <<>>),
      History("ok", <<Order(-12345670, d)>>),
      History("ok", <<Order(-500, d - 1), Order(30000, d)>>) }

\* mt5_client.get_symbol_info(symbol): the symbol's metadata ("ok"), None
\* ("none") or an exception ("raise"); "unread" when it is not asked.
\* trade_tick_value is the instrument's lastTick value whatever the answer.
SymbolInfo(st, tick, vmin, vmax, step) ==
    [status |-> st, trade_tick_value |-> tick, volume_min |-> vmin,
     volume_max |-> vmax, volume_step |-> step]

SymbolInputs ==
    { SymbolInfo("raise", 1, 1, 10000, 1),
      SymbolInfo("none", 1, 1, 10000, 1),
      SymbolInfo("ok", 1, 1, 10000, 1),
      SymbolInfo("ok", 0, 1, 10000, 1),
      SymbolInfo("ok", 10, 15, 500, 10),
      SymbolInfo("ok", 10, 100, 1000, 100) }

SymbolUnread == SymbolInfo("unread", 0, 0, 0, 0)

SymbolAnswers(asked) == IF asked THEN SymbolInputs ELSE {SymbolUnread}

\* The second get_account_info() of calculate_position_size.
SizeAccountInputs ==
    { Account("raise", 0, 0, FALSE),
      Account("none", 0, 0, FALSE),
      Account("ok", 10000, 9500, TRUE),
      Account("ok", 10000, 9500, FALSE),
      Account("ok", 200199, 200199, TRUE) }

SizeAccountAnswers(asked) == IF asked THEN SizeAccountInputs ELSE {AccountUnread}

PositionUnread == Positions("unread", <<>>)

PositionAnswers(asked) == IF asked THEN PositionInputs ELSE {PositionUnread}

\* What get_symbol_info answers for each symbol that has an open position.
SymbolTableInputs ==
    { ("EURUSD" :> SymbolInfo("ok", 1, 1, 10000, 1)
          @@ "XAUUSD" :> SymbolInfo("ok", 10, 1, 10000, 1)),
      ("EURUSD" :> SymbolInfo("ok", 1, 1, 10000, 1)
          @@ "XAUUSD" :> SymbolInfo("none", 10, 1, 10000, 1)),
      ("EURUSD" :> SymbolInfo("ok", 1, 1, 10000, 1)
          @@ "XAUUSD" :> SymbolInfo("raise", 10, 1, 10000, 1)) }

SymbolTableUnread ==
    ("EURUSD" :> SymbolUnread @@ "XAUUSD" :> SymbolUnread)

SymbolTableAnswers(asked) ==
    IF asked THEN SymbolTableInputs ELSE {SymbolTableUnread}

\* get_account_info() in check_all_trades_risk.
AggAccountInputs ==
    { Account("raise", 0, 0, FALSE),
      Account("none", 0, 0, FALSE),
      Account("ok", 10000, 10000, TRUE) }

\* new_trade_risk, in cents
NewTradeRiskInputs == {0, 47800, 49800}

StopInputs == {-5, 0, 50, 200}

\* date.today(): the stored day or the day after it.
Dates == {d \in {today, today + 1} : d <= MaxDay}

PctInputs == {0, 5, 100, 101}

-----------------------------------------------------------------------------
(* RiskManager *)

\* _validate_risk_parameters: TRUE when it raises RiskValidationError.
validate_risk_parameters_range_only(rpt, rat, dr) ==
    ~(\A r \in {rpt, rat, dr} : 0 < r /\ r <= 100)

validate_risk_parameters(rpt, rat, dr) ==
    \/ ~(\A r \in {rpt, rat, dr} : 0 < r /\ r <= 100)
    \/ rpt > rat
    \/ rat > dr

\* _update_daily_limits: the exception it ends with ("none": it returns)
\* and the daily_loss_limit it leaves.
update_daily_limits(acct, dr, limit) ==
    IF acct.status = "raise"
        THEN [exc |-> "TradingConnectionError", limit |-> limit]
    ELSE IF acct.status = "none"
        THEN [exc |-> "RiskManagementError", limit |-> limit]
    ELSE [exc |-> "none", limit |-> DecMulPct(acct.balance, dr)]

\* update_settings(risk_per_trade, risk_all_trades, daily_risk)
update_settings_assign_first(rpt, rat, dr, acct) ==
    IF validate_risk_parameters(rpt, rat, dr)
    THEN /\ ret.op = "idle"
         /\ risk_per_trade' = rpt
         /\ risk_all_trades' = rat
         /\ daily_risk' = dr
         /\ UNCHANGED <<daily_loss_limit, daily_profit, today>>
         /\ ret' = [op |-> "update_settings", args |-> <<rpt, rat, dr>>,
                    acct |-> acct, exc |-> "RiskValidationError"]
    ELSE LET u == update_daily_limits(acct, dr, daily_loss_limit)
         IN  /\ ret.op = "idle"
             /\ risk_per_trade' = rpt
             /\ risk_all_trades' = rat
             /\ daily_risk' = dr
             /\ daily_loss_limit' = u.limit
             /\ UNCHANGED <<daily_profit, today>>
             /\ ret' = [op |-> "update_settings", args |-> <<rpt, rat, dr>>,
                        acct |-> acct,
                        exc |-> IF u.exc = "none" THEN "none"
                                ELSE "RiskManagementError"]

update_settings(rpt, rat, dr, acct) ==
    IF validate_risk_parameters(rpt, rat, dr)
    THEN /\ ret.op = "idle"
         /\ ret' = [op |-> "update_settings", args |-> <<rpt, rat, dr>>,
                    acct |-> acct, exc |-> "RiskValidationError"]
         /\ UNCHANGED riskState
    ELSE LET u == update_daily_limits(acct, dr, daily_loss_limit)
         IN  /\ ret.op = "idle"
             /\ risk_per_trade' = rpt
             /\ risk_all_trades' = rat
             /\ daily_risk' = dr
             /\ daily_loss_limit' = u.limit
             /\ UNCHANGED <<daily_profit, today>>
             /\ ret' = [op |-> "update_settings", args |-> <<rpt, rat, dr>>,
                        acct |-> acct,
                        exc |-> IF u.exc = "none" THEN "none"
                                ELSE "RiskManagementError"]

\* _get_open_positions_profit: the rounded running sum of the positions'
\* profits; 0 when there are none or the provider raises.
RECURSIVE SumProfit(_, _)
SumProfit(items, total) ==
    IF items = <<>> THEN total
    ELSE SumProfit(Tail(items), DecRound(total + Head(items).profit))

get_open_positions_profit(pos) ==
    IF pos.status = "ok" THEN SumProfit(pos.items, 0) ELSE 0

\* _get_history_profit: the same over the orders set up on current_date.
RECURSIVE SumProfitOn(_, _, _)
SumProfitOn(items, current_date, total) ==
    IF items = <<>> THEN total
    ELSE SumProfitOn(Tail(items), current_date,
                     IF Head(items).day = current_date
                     THEN DecRound(total + Head(items).profit)
                     ELSE total)

get_history_profit(hist, current_date) ==
    IF hist.status = "ok" THEN SumProfitOn(hist.items, current_date, 0) ELSE 0

\* _calculate_daily_profit
calculate_daily_profit(profit, pos, hist, current_date) ==
    DecRound(DecRound(profit + get_open_positions_profit(pos))
             + get_history_profit(hist, current_date))

\* _reset_daily_values: today and daily_profit are assigned before
\* _update_daily_limits is called, which may raise.
reset_daily_values_keep_limit(current_date, acct) ==
    [today |-> current_date, daily_profit |-> 0,
     daily_loss_limit |-> daily_loss_limit,
     exc |-> update_daily_limits(acct, daily_risk, daily_loss_limit).exc]

\* _reset_daily_values, were it to assign nothing when the account cannot be
\* read
reset_daily_values_all_or_nothing(current_date, acct) ==
    LET u == update_daily_limits(acct, daily_risk, daily_loss_limit)
    IN  IF u.exc # "none"
        THEN [today |-> today, daily_profit |-> daily_profit,
              daily_loss_limit |-> daily_loss_limit, exc |-> u.exc]
        ELSE [today |-> current_date, daily_profit |-> 0,
              daily_loss_limit |-> u.limit, exc |-> u.exc]

reset_daily_values(current_date, acct) ==
    LET u == update_daily_limits(acct, daily_risk, daily_loss_limit)
    IN  [today |-> current_date, daily_profit |-> 0,
         daily_loss_limit |-> u.limit, exc |-> u.exc]

\* total_profit <= -self.daily_loss_limit
limit_reached(total_profit, limit) == total_profit <= -limit

\* check_daily_limits as a function of the state and of what the clock and
\* the providers answer: the RiskState it leaves, the exception it ends with
\* ("none": it returns) and the value it returns.
daily_limits(current_date, acct, pos, hist) ==
    LET r == IF current_date # today
             THEN reset_daily_values(current_date, acct)
             ELSE [today |-> today, daily_profit |-> daily_profit,
                   daily_loss_limit |-> daily_loss_limit, exc |-> "none"]
    IN  IF r.exc # "none"
        THEN [today |-> r.today, daily_profit |-> r.daily_profit,
              daily_loss_limit |-> r.daily_loss_limit, exc |-> r.exc,
              value |-> FALSE]
        ELSE [today |-> r.today, daily_profit |-> r.daily_profit,
              daily_loss_limit |-> r.daily_loss_limit, exc |-> "none",
              value |-> ~limit_reached(
                  calculate_daily_profit(r.daily_profit, pos, hist, current_date),
                  r.daily_loss_limit)]

\* check_daily_limits()
check_daily_limits(current_date, acct, pos, hist) ==
    LET c == daily_limits(current_date, acct, pos, hist)
    IN  /\ ret.op = "idle"
        /\ today' = c.today
        /\ daily_profit' = c.daily_profit
        /\ daily_loss_limit' = c.daily_loss_limit
        /\ UNCHANGED <<risk_per_trade, risk_all_trades, daily_risk>>
        /\ ret' = [op |-> "check_daily_limits", date |-> current_date,
                   rollover |-> current_date # today,
                   acct |-> acct, pos |-> pos, hist |-> hist,
                   exc |-> c.exc, value |-> c.value]

\* _validate_stop_loss: TRUE when it raises RiskValidationError.
validate_stop_loss(stop_loss) == stop_loss <= 0

\* _adjust_volume_to_constraints(volume, symbol_info), volume = [c, k] in
\* hundredths of a lot: max(min(volume, max_volume), min_volume), then
\* (volume // step) * step.  exc: the exception it ends with.
adjust_volume_to_constraints(volume, symbol_info) ==
    LET p     == Pow10(volume.k)
        f     == volume.c \div p
        frac  == volume.c % p
        vmin  == symbol_info.volume_min
        vmax  == symbol_info.volume_max
        step  == symbol_info.volume_step
        above == f > vmax \/ (f = vmax /\ frac > 0)
        f1    == IF above THEN vmax ELSE f
        f2    == IF f1 < vmin THEN vmin ELSE f1
    IN  IF step = 0
            THEN [exc |-> "DivisionByZero", volume |-> 0]
        ELSE IF NumDigits(f2 \div step) > Prec
            THEN [exc |-> "InvalidOperation", volume |-> 0]
        ELSE [exc |-> "none", volume |-> DecRound((f2 \div step) * step)]

NoSize == [kind |-> "None", volume |-> 0, risk_amount |-> 0,
           raw |-> [c |-> 0, k |-> 0]]

\* The try block of calculate_position_size: the exception that leaves it
\* ("none": it returns) and what it returns.
position_size(stop, acct, sym, rpt) ==
    IF validate_stop_loss(stop)
        THEN [exc |-> "none", value |-> NoSize]
    ELSE IF acct.status # "ok"
        THEN [exc |-> "RiskManagementError", value |-> NoSize]
    ELSE IF sym.status # "ok"
        THEN [exc |-> "RiskManagementError", value |-> NoSize]
    ELSE IF DecRound(stop * sym.trade_tick_value) = 0
        THEN [exc |-> "RiskManagementError", value |-> NoSize]
    ELSE
        LET risk_amount == DecMulPct(acct.balance, rpt)
            raw == DecDiv(risk_amount, DecRound(stop * sym.trade_tick_value))
            adj == adjust_volume_to_constraints(raw, sym)
        IN  IF adj.exc # "none" \/ ~acct.has_currency
            THEN [exc |-> "RiskManagementError", value |-> NoSize]
            ELSE [exc |-> "none",
                  value |-> [kind |-> "Result", volume |-> adj.volume,
                             risk_amount |-> risk_amount, raw |-> raw]]

\* calculate_position_size(symbol, stop_loss_pips)
calculate_position_size(current_date, acct, pos, hist, stop, acct2, sym) ==
    LET c == daily_limits(current_date, acct, pos, hist)
        s == position_size(stop, acct2, sym, risk_per_trade)
    IN  /\ ret.op = "idle"
        /\ today' = c.today
        /\ daily_profit' = c.daily_profit
        /\ daily_loss_limit' = c.daily_loss_limit
        /\ UNCHANGED <<risk_per_trade, risk_all_trades, daily_risk>>
        /\ ret' = [op |-> "calculate_position_size", date |-> current_date,
                   rollover |-> current_date # today,
                   acct |-> acct, pos |-> pos, hist |-> hist,
                   stop |-> stop, acct2 |-> acct2, sym |-> sym,
                   daily |-> IF c.exc # "none" THEN "raise"
                             ELSE IF c.value THEN "true" ELSE "false",
                   exc |-> IF c.exc # "none" THEN c.exc
                           ELSE IF ~c.value THEN "none" ELSE s.exc,
                   value |-> IF c.exc # "none" \/ ~c.value THEN NoSize
                             ELSE s.value]

\* What calculate_position_size gets to ask, given the answers so far.
asks_account(current_date, acct, pos, hist, stop) ==
    LET c == daily_limits(current_date, acct, pos, hist)
    IN  c.exc = "none" /\ c.value /\ ~validate_stop_loss(stop)

asks_symbol(current_date, acct, pos, hist, stop, acct2) ==
    asks_account(current_date, acct, pos, hist, stop) /\ acct2.status = "ok"

-----------------------------------------------------------------------------

\* _calculate_open_positions_risk: the rounded running sum of
\* volume * price_current * trade_tick_value over the positions whose symbol
\* metadata is there; 0 when a lookup raises or there are no positions.
RECURSIVE SumRisk(_, _, _)
SumRisk(items, symtab, total) ==
    IF items = <<>> THEN total
    ELSE LET position == Head(items)
             symbol_info == symtab[position.symbol]
         IN  IF symbol_info.status # "ok"
             THEN SumRisk(Tail(items), symtab, total)
             ELSE SumRisk(Tail(items), symtab,
                      DecRound(total + DecRound(
                          DecRound(position.volume * position.price_current)
                          * symbol_info.trade_tick_value)))

calculate_open_positions_risk(pos, symtab) ==
    IF pos.status # "ok" THEN 0
    ELSE IF \E i \in 1 .. Len(pos.items) :
                symtab[pos.items[i].symbol].status = "raise"
        THEN 0
    ELSE SumRisk(pos.items, symtab, 0)

\* _calculate_current_risk
calculate_current_risk(new_trade_risk, pos, symtab) ==
    DecRound(calculate_open_positions_risk(pos, symtab) + new_trade_risk)

\* check_all_trades_risk, were it to refresh the daily limit from the
\* account snapshot it reads
check_all_trades_risk_refreshing(new_trade_risk, acct, pos, symtab) ==
    /\ ret.op = "idle"
    /\ daily_loss_limit' =
           update_daily_limits(acct, daily_risk, daily_loss_limit).limit
    /\ UNCHANGED <<risk_per_trade, risk_all_trades, daily_risk,
                   daily_profit, today>>
    /\ ret' = [op |-> "check_all_trades_risk", new_trade_risk |-> new_trade_risk,
               acct |-> acct, pos |-> pos, symtab |-> symtab,
               exc |-> IF acct.status = "raise" THEN "RiskManagementError"
                       ELSE "none",
               value |-> /\ acct.status = "ok"
                         /\ ~(calculate_current_risk(new_trade_risk, pos, symtab)
                                >= DecMulPct(acct.balance, risk_all_trades))]

\* check_all_trades_risk(new_trade_risk)
check_all_trades_risk(new_trade_risk, acct, pos, symtab) ==
    /\ ret.op = "idle"
    /\ UNCHANGED riskState
    /\ ret' = [op |-> "check_all_trades_risk", new_trade_risk |-> new_trade_risk,
               acct |-> acct, pos |-> pos, symtab |-> symtab,
               exc |-> IF acct.status = "raise" THEN "RiskManagementError"
                       ELSE "none",
               value |-> /\ acct.status = "ok"
                         /\ ~(calculate_current_risk(new_trade_risk, pos, symtab)
                                >= DecMulPct(acct.balance, risk_all_trades))]

\* The trades the database of the client returns to get_trade_statistics
\* (profits in cents): no database attribute, a query that raises, or rows.
Trades(st, items) == [status |-> st, items |-> items]

TradesInputs ==
    {Trades("absent", <<>>), Trades("raise", <<>>), Trades("ok", <<>>),
     Trades("ok", <<2500, -1000, 0>>)}

RECURSIVE SumTrades(_, _)
SumTrades(items, total) ==
    IF items = <<>> THEN total
    ELSE SumTrades(Tail(items), DecRound(total + Head(items)))

\* TradeStats as get_trade_statistics fills it
TradeStats(total_trades, profitable, avg_profit) ==
    [total_trades |-> total_trades, profitable |-> profitable,
     avg_profit |-> avg_profit]

\* get_trade_statistics(symbol): every exception is caught and the default
\* statistics are returned; nothing of the RiskManager is assigned.
get_trade_statistics(trades) ==
    /\ ret.op = "idle"
    /\ UNCHANGED riskState
    /\ ret' = [op |-> "get_trade_statistics", trades |-> trades,
               exc |-> "none",
               value |-> IF trades.status # "ok" \/ trades.items = <<>>
                         THEN TradeStats(0, 0, [c |-> 0, k |-> 0])
                         ELSE TradeStats(
                                Len(trades.items),
                                Cardinality({i \in 1 .. Len(trades.items) :
                                                trades.items[i] > 0}),
                                DecDiv(SumTrades(trades.items, 0),
                                       Len(trades.items)))]

\* The caller takes the outcome of the call; the next call can start.
Idle == [op |-> "idle", exc |-> "none"]

Return ==
    /\ ret.op # "idle"
    /\ ret' = Idle
    /\ UNCHANGED riskState

-----------------------------------------------------------------------------
(* core/strategies: the three variants of BaseStrategy.                    *)
(*                                                                         *)
(* A DataFrame is known by its length, its set of columns and the values   *)
(* of its last two rows.  Prices, volumes and indicator values are whole   *)
(* numbers, quotients are counted in hundredths (FDiv), and a float that   *)
(* is not a number is NaN.  The rolling and exponential means of a frame   *)
(* are values of the frame (what pandas computes for these bars); the      *)
(* columns that are an arithmetic function of one or two rows are computed *)
(* here as calculate_indicators computes them.                             *)

Variants == {"Sniper", "SmartSniper", "SmartMoney"}

\* numpy.nan and numpy.inf, outside the range of every value of a frame
NaN == 999999
PInf == 888888

\* float comparison: False whenever an operand is NaN
FGt(a, b) == a # NaN /\ b # NaN /\ a > b
FLt(a, b) == a # NaN /\ b # NaN /\ a < b

\* float addition, subtraction, multiplication by a constant
FAdd(a, b) ==
    IF a = NaN \/ b = NaN THEN NaN
    ELSE IF a = PInf \/ b = PInf THEN PInf
    ELSE a + b

FSub(a, b) ==
    IF a = NaN \/ b = NaN THEN NaN
    ELSE IF a = PInf THEN PInf
    ELSE a - b

FMul(k, a) ==
    IF a = NaN THEN NaN
    ELSE IF a = PInf THEN PInf
    ELSE k * a

\* float division of non-negative operands, in hundredths: 0 / 0 is NaN and
\* x / 0 is inf; neither raises on a Series.
FDiv(a, b) ==
    IF a = NaN \/ b = NaN THEN NaN
    ELSE IF b = 0 THEN (IF a = 0 THEN NaN ELSE PInf)
    ELSE (100 * a) \div b

FAbs(a) == IF a = NaN \/ a = PInf THEN a ELSE Abs(a)

\* min(a, b) and max(a, b) of Python: b only when the comparison is True
FMin(a, b) == IF FLt(b, a) THEN b ELSE a

FMax(a, b) == IF FGt(b, a) THEN b ELSE a

\* max(...) of a set of integers
MaxOf(S) == CHOOSE x \in S : \A y \in S : y <= x

\* Indicator periods of each variant after __init__.
Periods(variant) ==
    IF variant = "Sniper" THEN
        [sma_fast_period |-> 10, sma_slow_period |-> 20, rsi_period |-> 14,
         stoch_k_period |-> 14, stoch_d_period |-> 3, stoch_slowing |-> 3,
         atr_period |-> 14, adx_period |-> 14, macd_fast |-> 12,
         macd_slow |-> 26, macd_signal |-> 9, volume_ma_period |-> 20,
         vwap_period |-> 0]
    ELSE IF variant = "SmartSniper" THEN
        [sma_fast_period |-> 5, sma_slow_period |-> 20, rsi_period |-> 14,
         stoch_k_period |-> 5, stoch_d_period |-> 3, stoch_slowing |-> 3,
         atr_period |-> 14, adx_period |-> 14, macd_fast |-> 12,
         macd_slow |-> 26, macd_signal |-> 9, volume_ma_period |-> 20,
         vwap_period |-> 20]
    ELSE
        \* SmartMoney passes sma_period as sma_fast_period and ema_period
        \* as sma_slow_period
        [sma_fast_period |-> 50, sma_slow_period |-> 20, rsi_period |-> 14,
         stoch_k_period |-> 14, stoch_d_period |-> 3, stoch_slowing |-> 3,
         atr_period |-> 14, adx_period |-> 14, macd_fast |-> 12,
         macd_slow |-> 26, macd_signal |-> 9, volume_ma_period |-> 20,
         vwap_period |-> 0]

\* get_required_history_size of each variant
get_required_history_size(variant) ==
    LET p == Periods(variant)
    IN  IF variant = "Sniper" THEN
            MaxOf({p.sma_slow_period, p.rsi_period,
                   p.stoch_k_period + p.stoch_d_period + p.stoch_slowing,
                   p.atr_period, p.adx_period * 2,
                   p.macd_slow + p.macd_signal}) + 50
        ELSE IF variant = "SmartSniper" THEN
            MaxOf({p.vwap_period * 2, p.sma_slow_period, p.rsi_period,
                   p.stoch_k_period + p.stoch_d_period + p.stoch_slowing,
                   p.atr_period, p.adx_period * 2,
                   p.macd_slow + p.macd_signal}) + 50
        ELSE
            MaxOf({p.sma_fast_period, p.sma_slow_period, p.rsi_period,
                   p.atr_period, p.volume_ma_period, 20}) + 50

\* The number of rows below which analyze returns None: SmartSniper
\* compares len(data) with the literal 100.
length_gate(variant) ==
    IF variant = "SmartSniper" THEN 100
    ELSE get_required_history_size(variant)

\* Columns of a frame of rates from the terminal (MT5Client) and of a frame
\* read back from the cache (MarketDatabase.get_market_data).
RateColumns ==
    {"open", "high", "low", "close", "tick_volume", "spread", "real_volume"}

CacheColumns == {"open", "high", "low", "close", "volume"}

\* Columns calculate_indicators of each variant adds to the frame.
IndicatorColumns(variant) ==
    IF variant = "Sniper" THEN
        {"sma_fast", "sma_slow", "rsi", "stoch_k", "stoch_d", "atr", "adx",
         "macd", "macd_signal", "macd_hist"}
    ELSE IF variant = "SmartSniper" THEN
        {"typical_price", "cumulative_volume", "cumulative_typical", "vwap",
         "sma_fast", "sma_slow", "rsi", "atr", "stoch_k", "stoch_d", "adx",
         "macd", "macd_signal", "macd_hist", "volume_ma", "volume_ratio"}
    ELSE
        {"sma", "ema", "rsi", "atr", "volume_ma", "volume_ratio",
         "body_size", "upper_shadow", "lower_shadow", "total_shadow",
         "is_pinbar", "is_engulfing"}

\* Columns calculate_indicators reads from the frame it is given.
SourceColumns(variant) ==
    IF variant = "Sniper" THEN {"close", "low", "high"}
    ELSE IF variant = "SmartSniper" THEN {"high", "low", "close", "real_volume"}
    ELSE {"close", "high", "low", "real_volume", "open"}

\* Columns analyze reads from the rows on every path before it decides.
AlwaysReads(variant) ==
    IF variant = "Sniper" THEN
        {"sma_fast", "sma_slow", "adx", "real_volume", "volume_ma"}
    ELSE IF variant = "SmartSniper" THEN
        {"close", "vwap", "sma_fast", "sma_slow", "adx", "volume_ratio"}
    ELSE {"low", "high", "close", "ema", "volume_ratio", "atr"}

\* calculate_indicators: the columns of the frame it returns and the
\* exception that leaves it.  Sniper and SmartMoney catch every exception
\* and return the frame as far as it got; SmartSniper has no handler.
calculate_indicators(variant, cols) ==
    IF SourceColumns(variant) \subseteq cols
        THEN [exc |-> "none", cols |-> cols \cup IndicatorColumns(variant)]
    ELSE IF variant = "SmartSniper"
        THEN [exc |-> "KeyError", cols |-> cols]
    ELSE [exc |-> "none", cols |-> cols]

\* The frames handed to analyze: as cached, as received from the terminal,
\* after the variant's own calculate_indicators, and with the indicator
\* columns of all variants.  Whenever such a frame has the columns of
\* AlwaysReads it has every other column analyze reads.
ColumnInputs(variant) ==
    {CacheColumns,
     RateColumns,
     calculate_indicators(variant, RateColumns).cols,
     RateColumns \cup UNION {IndicatorColumns(v) : v \in Variants}}

\* len(data)
LenInputs == {84, 85, 99, 100}

\* (open, high, low, close) of the last bar and (open, close) of the bar
\* before it: bullish pin-bar, bearish pin-bar, bearish engulfing with a
\* long lower shadow, bullish engulfing, bullish candle closing above the
\* middle of a bearish one, flat bar.
Candle(o, h, l, c, po, pc) ==
    [last |-> [open |-> o, high |-> h, low |-> l, close |-> c],
     prev |-> [open |-> po, close |-> pc]]

CandleInputs ==
    {Candle(99, 100, 96, 100, 100, 99),
     Candle(101, 104, 100, 100, 100, 101),
     Candle(104, 105, 90, 100, 101, 103),
     Candle(96, 100, 96, 100, 99, 97),
     Candle(99, 100, 99, 100, 101, 98),
     Candle(100, 100, 100, 100, 100, 100)}

\* Moving averages at the last bar (the close is 100 in every candle).
Trend(sf, ss, vw, em, sm) ==
    [sma_fast |-> sf, sma_slow |-> ss, vwap |-> vw, ema |-> em, sma |-> sm]

TrendInputs ==
    {Trend(98, 96, 95, 98, 96),
     Trend(106, 104, 95, 104, 106),
     Trend(102, 104, 105, 102, 104),
     Trend(94, 96, 105, 96, 98),
     Trend(NaN, NaN, NaN, NaN, NaN)}

AdxInputs == {20, 30}

RsiInputs == {40, 60, 75}

\* (real_volume, volume_ma) of the last bar
Volume(rv, vma) == [real_volume |-> rv, volume_ma |-> vma]

VolumeInputs == {Volume(200, 100), Volume(150, 100), Volume(100, 100)}

\* stoch_k, stoch_d of the last bar and of the bar before it
Stoch(k, d, pk, pd) == [stoch_k |-> k, stoch_d |-> d, prev_k |-> pk, prev_d |-> pd]

StochInputs == {Stoch(60, 50, 40, 50), Stoch(40, 50, 60, 50), Stoch(60, 50, 60, 50)}

\* macd_hist of the last bar and of the bar before it
Macd(h, ph) == [macd_hist |-> h, prev_hist |-> ph]

MacdInputs == {Macd(2, 1), Macd(-2, -1), Macd(1, 2)}

\* atr of the last bar, and how far below the last low (above the last
\* high) the lowest low (highest high) of the last 20 bars is
Levels(atr, below, above) == [atr |-> atr, below |-> below, above |-> above]

LevelInputs == {Levels(5, 0, 0), Levels(5, 50, 50)}

\* A frame: the last two rows and the 20-bar extremes.
Frame(k, t, adx, rsi, v, s, m, lv) ==
    [last |-> [open |-> k.last.open, high |-> k.last.high,
               low |-> k.last.low, close |-> k.last.close,
               real_volume |-> v.real_volume, volume_ma |-> v.volume_ma,
               sma_fast |-> t.sma_fast, sma_slow |-> t.sma_slow,
               vwap |-> t.vwap, ema |-> t.ema, sma |-> t.sma,
               adx |-> adx, rsi |-> rsi, atr |-> lv.atr,
               stoch_k |-> s.stoch_k, stoch_d |-> s.stoch_d,
               macd_hist |-> m.macd_hist],
     prev |-> [open |-> k.prev.open, close |-> k.prev.close,
               stoch_k |-> s.prev_k, stoch_d |-> s.prev_d,
               macd_hist |-> m.prev_hist],
     support |-> k.last.low - lv.below,
     resistance |-> k.last.high + lv.above]

\* The whole quotient a / b where it is exact, NaN and inf as FDiv.
FQuot(a, b) ==
    IF FDiv(a, b) = NaN \/ FDiv(a, b) = PInf THEN FDiv(a, b) ELSE a \div b

\* What calculate_indicators computes at the last rows of a series of n
\* bars with open = high = low = close = c and real_volume = v on every
\* bar: every rolling or exponential mean, minimum and maximum of a
\* constant column is the constant, and every diff() is 0.
FlatFrame(c, v, n) ==
    LET rs      == FQuot(0, 0)                       \* gain / loss
        rsi     == FSub(100, FQuot(100, FAdd(1, rs)))
        stoch_k == FMul(100, FQuot(c - c, c - c))    \* (close - low_min) / (high_max - low_min)
        di      == FMul(100, FQuot(0, 0))            \* plus_dm.ewm / tr.ewm
        adx     == FMul(100, FAbs(FQuot(FSub(di, di), FAdd(di, di))))
        vwap    == FQuot(c * v * n, v * n)
    IN  Frame(Candle(c, c, c, c, c, c), Trend(c, c, vwap, c, c), adx, rsi,
              Volume(v, v), Stoch(stoch_k, stoch_k, stoch_k, stoch_k),
              Macd(0, 0), Levels(0, 0, 0))

FlatFrames == {FlatFrame(100, v, 100) : v \in {0, 100}}

\* Frames given to each variant; the columns a variant does not read are the
\* same in all of its frames.
FrameInputs(variant) ==
    IF variant = "Sniper" THEN
        {Frame(Candle(99, 100, 96, 100, 100, 99), t, adx, 60, v, s, m,
               Levels(5, 0, 0)) :
            t \in TrendInputs, adx \in AdxInputs, v \in VolumeInputs,
            s \in StochInputs, m \in MacdInputs} \cup FlatFrames
    ELSE IF variant = "SmartSniper" THEN
        {Frame(Candle(99, 100, 96, 100, 100, 99), t, adx, rsi, v, s, m,
               Levels(5, 0, 0)) :
            t \in TrendInputs, adx \in AdxInputs, rsi \in RsiInputs,
            v \in VolumeInputs, s \in StochInputs, m \in MacdInputs}
        \cup FlatFrames
    ELSE
        {Frame(k, t, 30, rsi, v, Stoch(60, 50, 40, 50), Macd(2, 1), lv) :
            k \in CandleInputs, t \in TrendInputs, rsi \in RsiInputs,
            v \in VolumeInputs, lv \in LevelInputs} \cup FlatFrames

\* Columns of calculate_indicators that are a function of one or two rows.
volume_ratio(last) == FDiv(last.real_volume, last.volume_ma)

body_size(row) == Abs(row.close - row.open)

upper_shadow(last) ==
    last.high - (IF last.open > last.close THEN last.open ELSE last.close)

lower_shadow(last) ==
    (IF last.open < last.close THEN last.open ELSE last.close) - last.low

\* pinbar_threshold = 2.0
is_pinbar(last) ==
    /\ \/ FGt(FDiv(upper_shadow(last), body_size(last)), 200)
       \/ FGt(FDiv(lower_shadow(last), body_size(last)), 200)
    /\ body_size(last) > 0

\* engulfing_ratio = 1.5
is_engulfing(last, prev) ==
    /\ 100 * body_size(last) > 150 * body_size(prev)
    /\ \/ /\ last.close > last.open
          /\ last.close > prev.open
          /\ last.open < prev.close
       \/ /\ last.close < last.open
          /\ last.close < prev.open
          /\ last.open > prev.close

\* The value analyze returns: a signal, or None.
Signal(action, price, stop_loss, take_profit) ==
    [action |-> action, price |-> price, stop_loss |-> stop_loss,
     take_profit |-> take_profit]

NoSignal == Signal("None", 0, 0, 0)

\* SniperStrategy.analyze: buy_signal and sell_signal
sniper_buy(last, prev) ==
    LET trend_up     == FGt(last.sma_fast, last.sma_slow)
                        /\ FGt(last.close, last.sma_slow)
        strong_trend == FGt(last.adx, 25)
        high_volume  == FGt(last.real_volume, last.volume_ma)
    IN  /\ trend_up
        /\ strong_trend
        /\ high_volume
        /\ FGt(last.stoch_k, last.stoch_d)
        /\ FLt(prev.stoch_k, prev.stoch_d)
        /\ FGt(last.macd_hist, 0)
        /\ FGt(last.macd_hist, prev.macd_hist)

sniper_sell(last, prev) ==
    LET trend_down   == FLt(last.sma_fast, last.sma_slow)
                        /\ FLt(last.close, last.sma_slow)
        strong_trend == FGt(last.adx, 25)
        high_volume  == FGt(last.real_volume, last.volume_ma)
    IN  /\ trend_down
        /\ strong_trend
        /\ high_volume
        /\ FLt(last.stoch_k, last.stoch_d)
        /\ FGt(prev.stoch_k, prev.stoch_d)
        /\ FLt(last.macd_hist, 0)
        /\ FLt(last.macd_hist, prev.macd_hist)

\* SniperStrategy.analyze, the try block on rows that have every column
sniper_signal(last, prev) ==
    IF sniper_buy(last, prev)
        THEN Signal("BUY", last.close,
                    FSub(last.low, FMul(2, last.atr)),
                    FAdd(last.close, FMul(3, last.atr)))
    ELSE IF sniper_sell(last, prev)
        THEN Signal("SELL", last.close,
                    FAdd(last.high, FMul(2, last.atr)),
                    FSub(last.close, FMul(3, last.atr)))
    ELSE NoSignal

\* SmartSniperStrategy.analyze: buy_signal and sell_signal
smart_sniper_buy(last, prev) ==
    LET price_above_vwap == FGt(last.close, last.vwap)
        trend_up     == FGt(last.sma_fast, last.sma_slow) /\ price_above_vwap
        strong_trend == FGt(last.adx, 25)
        high_volume  == FGt(volume_ratio(last), 150)
    IN  /\ trend_up
        /\ strong_trend
        /\ high_volume
        /\ FGt(last.rsi, 50)
        /\ FLt(last.rsi, 70)
        /\ FGt(last.stoch_k, last.stoch_d)
        /\ FLt(prev.stoch_k, prev.stoch_d)
        /\ FGt(last.macd_hist, 0)
        /\ FGt(last.macd_hist, prev.macd_hist)

smart_sniper_sell(last, prev) ==
    LET price_below_vwap == FLt(last.close, last.vwap)
        trend_down   == FLt(last.sma_fast, last.sma_slow) /\ price_below_vwap
        strong_trend == FGt(last.adx, 25)
        high_volume  == FGt(volume_ratio(last), 150)
    IN  /\ trend_down
        /\ strong_trend
        /\ high_volume
        /\ FLt(last.rsi, 50)
        /\ FGt(last.rsi, 30)
        /\ FLt(last.stoch_k, last.stoch_d)
        /\ FGt(prev.stoch_k, prev.stoch_d)
        /\ FLt(last.macd_hist, 0)
        /\ FLt(last.macd_hist, prev.macd_hist)

\* the levels of SmartSniperStrategy.analyze, were a SELL to take its
\* profit above the close as a BUY does
smart_sniper_signal_profit_above(last, prev) ==
    IF smart_sniper_buy(last, prev)
        THEN Signal("BUY", last.close,
                    FSub(FMin(last.low, last.vwap), FMul(2, last.atr)),
                    FAdd(last.close, FMul(3, last.atr)))
    ELSE IF smart_sniper_sell(last, prev)
        THEN Signal("SELL", last.close,
                    FAdd(FMax(last.high, last.vwap), FMul(2, last.atr)),
                    FAdd(last.close, FMul(3, last.atr)))
    ELSE NoSignal

\* SmartSniperStrategy.analyze on the rows calculate_indicators returned
smart_sniper_signal(last, prev) ==
    IF smart_sniper_buy(last, prev)
        THEN Signal("BUY", last.close,
                    FSub(FMin(last.low, last.vwap), FMul(2, last.atr)),
                    FAdd(last.close, FMul(3, last.atr)))
    ELSE IF smart_sniper_sell(last, prev)
        THEN Signal("SELL", last.close,
                    FAdd(FMax(last.high, last.vwap), FMul(2, last.atr)),
                    FSub(last.close, FMul(3, last.atr)))
    ELSE NoSignal

\* The candlestick conditions of SmartMoneyStrategy.analyze
bullish_pattern(last, prev) ==
    \/ is_pinbar(last) /\ lower_shadow(last) > upper_shadow(last)
    \/ is_engulfing(last, prev) /\ last.close > last.open
    \/ /\ last.close > last.open
       /\ prev.close < prev.open
       /\ FGt(100 * last.close, FDiv(prev.open + prev.close, 2))

bearish_pattern(last, prev) ==
    \/ is_pinbar(last) /\ upper_shadow(last) > lower_shadow(last)
    \/ is_engulfing(last, prev) /\ last.close < last.open
    \/ /\ last.close < last.open
       /\ prev.close > prev.open
       /\ FLt(100 * last.close, FDiv(prev.open + prev.close, 2))

smart_money_buy(last, prev, support) ==
    LET trend_up     == FGt(last.close, last.ema) /\ FGt(last.ema, last.sma)
        high_volume  == FGt(volume_ratio(last), 150)
        near_support == FLt(FAbs(FSub(last.low, support)), FMul(2, last.atr))
    IN  /\ trend_up \/ near_support
        /\ high_volume
        /\ bullish_pattern(last, prev)
        /\ FLt(30, last.rsi) /\ FLt(last.rsi, 70)

smart_money_sell(last, prev, resistance) ==
    LET trend_down      == FLt(last.close, last.ema) /\ FLt(last.ema, last.sma)
        high_volume     == FGt(volume_ratio(last), 150)
        near_resistance == FLt(FAbs(FSub(last.high, resistance)),
                               FMul(2, last.atr))
    IN  /\ trend_down \/ near_resistance
        /\ high_volume
        /\ bearish_pattern(last, prev)
        /\ FLt(30, last.rsi) /\ FLt(last.rsi, 70)

\* SmartMoneyStrategy.analyze, the try block on rows that have every column
smart_money_signal(last, prev, support, resistance) ==
    IF smart_money_buy(last, prev, support)
        THEN Signal("BUY", last.close,
                    FSub(FMin(last.low, support), FMul(2, last.atr)),
                    FAdd(last.close, FMul(4, last.atr)))
    ELSE IF smart_money_sell(last, prev, resistance)
        THEN Signal("SELL", last.close,
                    FAdd(FMax(last.high, resistance), FMul(2, last.atr)),
                    FSub(last.close, FMul(4, last.atr)))
    ELSE NoSignal

\* analyze(symbol, timeframe, data) of each variant: the exception that
\* leaves it ("none": it returns), the value it returns, and how far it got:
\* "disabled", "short" (the length gate), "KeyError" (a column is missing)
\* or "rows" (it evaluated the rules on the last two rows).

\* analyze without the check of self.enabled
analysis_ungated(variant, is_enabled, len, cols, frame) ==
    IF len < length_gate(variant)
        THEN [exc |-> "none", value |-> NoSignal, gate |-> "short"]
    ELSE IF variant = "SmartSniper"
        THEN IF calculate_indicators(variant, cols).exc # "none"
             THEN [exc |-> calculate_indicators(variant, cols).exc,
                   value |-> NoSignal, gate |-> "KeyError"]
             ELSE [exc |-> "none",
                   value |-> smart_sniper_signal(frame.last, frame.prev),
                   gate |-> "rows"]
    ELSE IF ~(AlwaysReads(variant) \subseteq cols)
        \* KeyError, caught by the handler of the try block
        THEN [exc |-> "none", value |-> NoSignal, gate |-> "KeyError"]
    ELSE IF variant = "Sniper"
        THEN [exc |-> "none",
              value |-> sniper_signal(frame.last, frame.prev),
              gate |-> "rows"]
    ELSE [exc |-> "none",
          value |-> smart_money_signal(frame.last, frame.prev,
                                       frame.support, frame.resistance),
          gate |-> "rows"]

analysis(variant, is_enabled, len, cols, frame) ==
    IF ~is_enabled
        THEN [exc |-> "none", value |-> NoSignal, gate |-> "disabled"]
    ELSE IF len < length_gate(variant)
        THEN [exc |-> "none", value |-> NoSignal, gate |-> "short"]
    ELSE IF variant = "SmartSniper"
        THEN IF calculate_indicators(variant, cols).exc # "none"
             THEN [exc |-> calculate_indicators(variant, cols).exc,
                   value |-> NoSignal, gate |-> "KeyError"]
             ELSE [exc |-> "none",
                   value |-> smart_sniper_signal(frame.last, frame.prev),
                   gate |-> "rows"]
    ELSE IF ~(AlwaysReads(variant) \subseteq cols)
        \* KeyError, caught by the handler of the try block
        THEN [exc |-> "none", value |-> NoSignal, gate |-> "KeyError"]
    ELSE IF variant = "Sniper"
        THEN [exc |-> "none",
              value |-> sniper_signal(frame.last, frame.prev),
              gate |-> "rows"]
    ELSE [exc |-> "none",
          value |-> smart_money_signal(frame.last, frame.prev,
                                       frame.support, frame.resistance),
          gate |-> "rows"]

\* The frame recorded for a call that did not get past its gates.
NoRows == FlatFrame(0, 0, 0)

\* MT5Client.connect: _connected is True after a successful initialize and
\* False after any failure.
connect(ok) ==
    /\ sret.op = "idle"
    /\ connected' = ok
    /\ UNCHANGED enabled
    /\ sret' = [op |-> "connect", strategy |-> "none", len |-> 0, cols |-> {},
                gate |-> "none", frame |-> NoRows, exc |-> "none",
                value |-> NoSignal]

\* disconnect, were it to disable the strategies of the client
disconnect_disabling ==
    /\ sret.op = "idle"
    /\ connected' = FALSE
    /\ enabled' = [v \in Variants |-> FALSE]
    /\ sret' = [op |-> "disconnect", strategy |-> "none", len |-> 0,
                cols |-> {}, gate |-> "none", frame |-> NoRows,
                exc |-> "none", value |-> NoSignal]

\* MT5Client.disconnect
disconnect ==
    /\ sret.op = "idle"
    /\ connected' = FALSE
    /\ UNCHANGED enabled
    /\ sret' = [op |-> "disconnect", strategy |-> "none", len |-> 0,
                cols |-> {}, gate |-> "none", frame |-> NoRows,
                exc |-> "none", value |-> NoSignal]

\* enable, were it not to look at the connection
enable_unconditionally(variant) ==
    /\ sret.op = "idle"
    /\ enabled' = [enabled EXCEPT ![variant] = TRUE]
    /\ UNCHANGED connected
    /\ sret' = [op |-> "enable", strategy |-> variant, len |-> 0, cols |-> {},
                gate |-> "none", frame |-> NoRows, exc |-> "none",
                value |-> NoSignal]

\* BaseStrategy.enable: returns without effect while the client is not
\* connected.
enable(variant) ==
    /\ sret.op = "idle"
    /\ enabled' = IF connected THEN [enabled EXCEPT ![variant] = TRUE]
                  ELSE enabled
    /\ UNCHANGED connected
    /\ sret' = [op |-> "enable", strategy |-> variant, len |-> 0, cols |-> {},
                gate |-> "none", frame |-> NoRows, exc |-> "none",
                value |-> NoSignal]

\* BaseStrategy.disable
disable(variant) ==
    /\ sret.op = "idle"
    /\ enabled' = [enabled EXCEPT ![variant] = FALSE]
    /\ UNCHANGED connected
    /\ sret' = [op |-> "disable", strategy |-> variant, len |-> 0,
                cols |-> {}, gate |-> "none", frame |-> NoRows,
                exc |-> "none", value |-> NoSignal]

\* analyze(symbol, timeframe, data)
analyze(variant, len, cols, frame) ==
    LET a == analysis(variant, enabled[variant], len, cols, frame)
    IN  /\ sret.op = "idle"
        /\ UNCHANGED <<connected, enabled>>
        /\ sret' = [op |-> "analyze", strategy |-> variant, len |-> len,
                    cols |-> cols, gate |-> a.gate,
                    frame |-> IF a.gate \in {"disabled", "short"}
                              THEN NoRows ELSE frame,
                    exc |-> a.exc, value |-> a.value]

StrategyIdle ==
    [op |-> "idle", strategy |-> "none", len |-> 0, cols |-> {},
     gate |-> "none", frame |-> NoRows, exc |-> "none", value |-> NoSignal]

\* The caller takes the outcome of the call; the next call can start.
StrategyReturn ==
    /\ sret.op # "idle"
    /\ sret' = StrategyIdle
    /\ UNCHANGED <<connected, enabled>>

-----------------------------------------------------------------------------
(* ui/main_window.py: the trading loop of TradingAssistantApp.  One tick       *)
(* is one invocation of _update_trading; the invocation it makes of itself *)
(* in its finally clause is the next tick.  Within one tick the providers          *)
(* answer every call alike.                                                *)

\* Last bar number in the model, and the cap of the per-bar signal counter.
MaxBar == 2
MaxActed == 2

\* self.strategies, in the order of the dict
StrategyOrder == <<"Sniper", "SmartSniper", "SmartMoney">>

\* What get_historical_data("EURUSD", H1, 100) returns while the latest
\* completed bar is the same: None, or a frame without indicator columns.
Market(st, len, cols, frame) ==
    [status |-> st, len |-> len, cols |-> cols, frame |-> frame]

\* Bars on which the SmartSniper rule gives BUY, SELL and nothing.
BuyBars ==
    Frame(Candle(99, 100, 96, 100, 100, 99), Trend(98, 96, 95, 98, 96), 30, 60,
          Volume(200, 100), Stoch(60, 50, 40, 50), Macd(2, 1), Levels(5, 0, 0))

SellBars ==
    Frame(Candle(99, 100, 96, 100, 100, 99), Trend(102, 104, 105, 102, 104),
          30, 40, Volume(200, 100), Stoch(40, 50, 60, 50), Macd(-2, -1),
          Levels(5, 0, 0))

MarketInputs ==
    {Market("None", 0, {}, NoRows),
     Market("ok", 100, RateColumns, BuyBars),
     Market("ok", 100, RateColumns, SellBars),
     Market("ok", 100, RateColumns, FlatFrame(100, 0, 100)),
     Market("ok", 100, CacheColumns, BuyBars),
     Market("ok", 99, RateColumns, BuyBars)}

\* get_symbol_info(symbol) as _process_signal uses it: 'point' besides the
\* fields the RiskManager reads.
LoopSymbol(st, point, info) == [status |-> st, point |-> point, info |-> info]

LoopSymbolInputs ==
    {LoopSymbol("raise", 1, SymbolInfo("raise", 1, 1, 10000, 1)),
     LoopSymbol("none", 1, SymbolInfo("none", 1, 1, 10000, 1)),
     LoopSymbol("ok", 1, SymbolInfo("ok", 1, 1, 10000, 1))}

LoopAccountInputs ==
    {Account("raise", 0, 0, TRUE), Account("none", 0, 0, TRUE),
     Account("ok", 10000, 9500, TRUE)}

\* all([symbol, action, price, stop_loss, take_profit]): a float is false
\* only when it is 0 (NaN is true)
complete_signal(signal) ==
    signal.price # 0 /\ signal.stop_loss # 0 /\ signal.take_profit # 0

\* _process_signal(signal, strategy_name) once the daily limit was found
\* not reached in this tick: how it ends.  calculate_position_size returns
\* a PositionSizeResult, which is not a number: the argument volume * 2 of
\* check_all_trades_risk raises TypeError before the call is made, and
\* place_order is not reached.
process_signal(signal, acct, sym) ==
    IF ~complete_signal(signal) THEN "incomplete"
    ELSE IF sym.status = "raise" THEN "raise"
    ELSE IF sym.status # "ok" THEN "no symbol"
    ELSE IF signal.stop_loss = NaN \/ sym.point = 0 THEN "raise"
    ELSE LET stop_loss_pips == Abs(signal.price - signal.stop_loss) \div sym.point
             s == position_size(stop_loss_pips, acct, sym.info, risk_per_trade)
         IN  IF s.exc # "none" THEN "raise"
             ELSE IF s.value.kind = "None" THEN "not sized"
             ELSE "TypeError"

\* The endings of the loop body that are an exception.
Raised == {"raise", "TypeError"}

\* The body of the for loop for one strategy: how it ends.
strategy_step(variant, acct, sym) ==
    IF ~enabled[variant] THEN "disabled"
    ELSE IF ~connected THEN "raise"
    ELSE IF market.status = "None" THEN "no data"
    ELSE LET a == analysis(variant, TRUE, market.len, market.cols, market.frame)
         IN  IF a.exc # "none" THEN "raise"
             ELSE IF a.value.action = "None" THEN "no signal"
             ELSE process_signal(a.value, acct, sym)

\* Whether the body of the for loop handed a signal to _process_signal.
strategy_signals(variant) ==
    /\ enabled[variant]
    /\ connected
    /\ market.status = "ok"
    /\ analysis(variant, TRUE, market.len, market.cols, market.frame).exc = "none"
    /\ analysis(variant, TRUE, market.len, market.cols,
                market.frame).value.action # "None"

\* The for loop over self.strategies: an exception ends it, and the
\* strategies after it are not reached.
RECURSIVE strategies_loop(_, _, _, _)
strategies_loop(i, acct, sym, out) ==
    IF i > Len(StrategyOrder) THEN out
    ELSE LET variant == StrategyOrder[i]
             o == strategy_step(variant, acct, sym)
         IN  IF o \in Raised
             THEN [out EXCEPT ![variant] = o]
             ELSE strategies_loop(i + 1, acct, sym, [out EXCEPT ![variant] = o])

NotReached == [v \in Variants |-> "not reached"]

Bump(n) == IF n < MaxActed THEN n + 1 ELSE n

NoTick ==
    [op |-> "idle", date |-> 0, account |-> "unread", daily |-> "skipped",
     outcome |-> NotReached, exc |-> FALSE]

\* _update_trading, were it to return on a reached daily limit without
\* calling _stop_trading
update_trading_without_stop(current_date, acct, hist, sym) ==
    LET c   == daily_limits(current_date, acct, Positions("ok", <<>>), hist)
        got == acct.status = "ok"
        go  == got /\ c.exc = "none" /\ c.value
        out == IF go THEN strategies_loop(1, acct, sym, NotReached)
               ELSE NotReached
    IN  /\ is_running
        /\ lastTick.op = "idle"
        /\ today' = IF got THEN c.today ELSE today
        /\ daily_profit' = IF got THEN c.daily_profit ELSE daily_profit
        /\ daily_loss_limit' = IF got THEN c.daily_loss_limit
                               ELSE daily_loss_limit
        /\ UNCHANGED <<risk_per_trade, risk_all_trades, daily_risk, ret>>
        /\ is_running' = is_running
        /\ acted' = [v \in Variants |->
                        IF go /\ out[v] # "not reached" /\ strategy_signals(v)
                        THEN Bump(acted[v]) ELSE acted[v]]
        /\ lastTick' = [op |-> "update_trading", date |-> current_date,
                    account |-> acct.status,
                    daily |-> IF ~got THEN "skipped"
                              ELSE IF c.exc # "none" THEN "raise"
                              ELSE IF c.value THEN "true" ELSE "false",
                    outcome |-> out,
                    exc |-> \/ acct.status = "raise"
                            \/ got /\ c.exc # "none"
                            \/ \E v \in Variants : out[v] \in Raised]
        /\ UNCHANGED <<bar, market, strategyVars, dataVars>>

\* _update_trading, one invocation while is_running: the account snapshot,
\* check_daily_limits, then analyze and _process_signal for each enabled
\* strategy.  Every exception is caught by the handler of the try block.
update_trading(current_date, acct, hist, sym) ==
    LET c   == daily_limits(current_date, acct, Positions("ok", <<>>), hist)
        got == acct.status = "ok"
        go  == got /\ c.exc = "none" /\ c.value
        out == IF go THEN strategies_loop(1, acct, sym, NotReached)
               ELSE NotReached
    IN  /\ is_running
        /\ lastTick.op = "idle"
        /\ today' = IF got THEN c.today ELSE today
        /\ daily_profit' = IF got THEN c.daily_profit ELSE daily_profit
        /\ daily_loss_limit' = IF got THEN c.daily_loss_limit
                               ELSE daily_loss_limit
        /\ UNCHANGED <<risk_per_trade, risk_all_trades, daily_risk, ret>>
        /\ is_running' = (IF got /\ c.exc = "none" /\ ~c.value THEN FALSE
                          ELSE is_running)
        /\ acted' = [v \in Variants |->
                        IF go /\ out[v] # "not reached" /\ strategy_signals(v)
                        THEN Bump(acted[v]) ELSE acted[v]]
        /\ lastTick' = [op |-> "update_trading", date |-> current_date,
                    account |-> acct.status,
                    daily |-> IF ~got THEN "skipped"
                              ELSE IF c.exc # "none" THEN "raise"
                              ELSE IF c.value THEN "true" ELSE "false",
                    outcome |-> out,
                    exc |-> \/ acct.status = "raise"
                            \/ got /\ c.exc # "none"
                            \/ \E v \in Variants : out[v] \in Raised]
        /\ UNCHANGED <<bar, market, strategyVars, dataVars>>

\* The invocation is over; the finally clause starts the next one while
\* is_running.
TickReturn ==
    /\ lastTick.op # "idle"
    /\ lastTick' = NoTick
    /\ UNCHANGED <<riskState, ret, strategyVars, dataVars, is_running, bar, market, acted>>

\* _start_trading: refused while the client is not connected or no strategy
\* is selected.
start_trading(selected) ==
    /\ lastTick.op = "idle"
    /\ ~is_running
    /\ is_running' = (connected /\ selected)
    /\ lastTick' = [NoTick EXCEPT !.op = "start_trading"]
    /\ UNCHANGED <<riskState, ret, strategyVars, dataVars, bar, market, acted>>

\* _stop_trading
stop_trading ==
    /\ lastTick.op = "idle"
    /\ is_running
    /\ is_running' = FALSE
    /\ lastTick' = [NoTick EXCEPT !.op = "stop_trading"]
    /\ UNCHANGED <<riskState, ret, strategyVars, dataVars, bar, market, acted>>

\* The terminal completes a bar: get_historical_data answers with the new
\* bars from now on.
NewBar(m) ==
    /\ lastTick.op = "idle"
    /\ bar < MaxBar
    /\ bar' = bar + 1
    /\ market' = m
    /\ acted' = [v \in Variants |-> 0]
    /\ UNCHANGED <<riskState, ret, strategyVars, dataVars, is_running, lastTick>>

\* The application as constructed: trading not started.
InitLoop ==
    /\ is_running = FALSE
    /\ bar = 0
    /\ market = Market("None", 0, {}, NoRows)
    /\ acted = [v \in Variants |-> 0]
    /\ lastTick = NoTick

-----------------------------------------------------------------------------

(* core/mt5_client.py: get_historical_data with the cache of               *)
(* core/database.py.  A bar is known by its number; the terminal holds the *)
(* last Depth completed bars.                                              *)

\* (symbol, timeframe) pairs
Keys == {"EURUSD_H1", "XAUUSD_H1"}

\* Bars the terminal keeps for a key.
Depth == 3

\* count
CountInputs == {1, 2, 100}

Min(a, b) == IF a < b THEN a ELSE b

\* mt5.copy_rates_from_pos(symbol, timeframe, 0, count): the last count
\* bars the terminal has, oldest first.
copy_rates_from_pos(count) ==
    [i \in 1 .. Min(count, Depth) |-> bar - Min(count, Depth) + i]

\* The n largest elements of S, ascending: ORDER BY timestamp DESC LIMIT n,
\* then sort_index().
RECURSIVE LastRows(_, _)
LastRows(S, n) ==
    IF S = {} \/ n = 0 THEN <<>>
    ELSE LET top == CHOOSE x \in S : \A y \in S : y <= x
         IN  Append(LastRows(S \ {top}, n - 1), top)

\* MarketDatabase.get_market_data(symbol, timeframe, limit): None when no
\* row matches, DatabaseError when the query fails.
get_market_data(key, limit, db_ok) ==
    IF ~db_ok THEN [exc |-> "DatabaseError", status |-> "None", rows |-> <<>>]
    ELSE IF cache[key] = {}
        THEN [exc |-> "none", status |-> "None", rows |-> <<>>]
    ELSE [exc |-> "none", status |-> "ok", rows |-> LastRows(cache[key], limit)]

Rows(st, rows, cols, asked, exc) ==
    [status |-> st, rows |-> rows, cols |-> cols, terminal |-> asked,
     exc |-> exc]

\* MT5Client.get_historical_data(symbol, timeframe, count): what it returns
\* or raises, and whether it consulted the terminal.  rates is a numpy
\* array: `not rates` is True for None and for no bars, False for one bar,
\* and raises ValueError for more than one, which the handler turns into
\* None.
historical_data(key, count, term_ok, db_ok) ==
    LET g     == get_market_data(key, count, db_ok)
        rates == copy_rates_from_pos(count)
    IN  IF ~connected
            THEN Rows("None", <<>>, {}, FALSE, "TradingConnectionError")
        ELSE IF database /\ g.exc # "none"
            THEN Rows("None", <<>>, {}, FALSE, "none")
        ELSE IF database /\ g.status = "ok"
            THEN Rows("ok", g.rows, CacheColumns, FALSE, "none")
        ELSE IF ~term_ok
            THEN Rows("None", <<>>, {}, TRUE, "none")
        ELSE IF Len(rates) # 1
            THEN Rows("None", <<>>, {}, TRUE, "none")
        ELSE Rows("ok", rates, RateColumns, TRUE, "none")

\* get_historical_data, were it to ask the terminal whenever the cache
\* holds fewer bars than requested
get_historical_data_refilling(key, count, term_ok, db_ok) ==
    LET g == get_market_data(key, count, db_ok)
        r == IF connected /\ database /\ g.exc = "none" /\ g.status = "ok"
                /\ Len(g.rows) < count
             THEN (IF term_ok /\ Len(copy_rates_from_pos(count)) = 1
                   THEN Rows("ok", copy_rates_from_pos(count), RateColumns,
                             TRUE, "none")
                   ELSE Rows("None", <<>>, {}, TRUE, "none"))
             ELSE historical_data(key, count, term_ok, db_ok)
    IN  /\ dret.op = "idle"
        /\ cache' = IF database /\ r.status = "ok" /\ r.terminal
                    THEN [cache EXCEPT ![key] = @ \cup
                            {r.rows[i] : i \in 1 .. Len(r.rows)}]
                    ELSE cache
        /\ dret' = [op |-> "get_historical_data", key |-> key,
                    count |-> count, cached |-> cache[key],
                    db |-> IF ~(connected /\ database) THEN "unread"
                           ELSE IF db_ok THEN "ok" ELSE "raise",
                    result |-> r]
        /\ UNCHANGED <<database, connected, bar>>

\* get_historical_data: the bars fetched from the terminal are saved when a
\* database is attached.
get_historical_data(key, count, term_ok, db_ok) ==
    LET r == historical_data(key, count, term_ok, db_ok)
    IN  /\ dret.op = "idle"
        /\ cache' = IF database /\ r.status = "ok" /\ r.terminal
                    THEN [cache EXCEPT ![key] = @ \cup
                            {r.rows[i] : i \in 1 .. Len(r.rows)}]
                    ELSE cache
        /\ dret' = [op |-> "get_historical_data", key |-> key,
                    count |-> count, cached |-> cache[key],
                    db |-> IF ~(connected /\ database) THEN "unread"
                           ELSE IF db_ok THEN "ok" ELSE "raise",
                    result |-> r]
        /\ UNCHANGED <<database, connected, bar>>

DataIdle ==
    [op |-> "idle", key |-> "none", count |-> 0, cached |-> {},
     db |-> "unread", result |-> Rows("None", <<>>, {}, FALSE, "none")]

\* The caller takes the outcome of the call; the next call can start.
DataReturn ==
    /\ dret.op # "idle"
    /\ dret' = DataIdle
    /\ UNCHANGED <<database, cache, connected, bar>>

\* The terminal completes a bar of every key.
CompleteBar ==
    /\ dret.op = "idle"
    /\ bar < MaxBar
    /\ bar' = bar + 1
    /\ UNCHANGED <<database, cache, dret, connected>>

\* The client of the application: constructed without a database.
InitData ==
    /\ database = FALSE
    /\ cache = [k \in Keys |-> {}]
    /\ dret = DataIdle

-----------------------------------------------------------------------------

\* The strategies as constructed: disabled, on a client not yet connected.
InitStrategies ==
    /\ connected = FALSE
    /\ enabled = [v \in Variants |-> FALSE]
    /\ sret = StrategyIdle

Init ==
    /\ risk_per_trade = 1
    /\ risk_all_trades = 5
    /\ daily_risk = 10
    /\ daily_loss_limit = 0
    /\ daily_profit = 0
    /\ today = 0
    /\ ret = Idle
    /\ InitStrategies
    /\ InitLoop
    /\ InitData

\* Calls are synchronous, one at a time; each disjunct is one call of a
\* public method with what the clock and the providers answer during it.
Next ==
    \/ /\ ret.op = "idle"
       /\ \E rpt \in PctInputs, rat \in PctInputs, dr \in PctInputs :
            \E acct \in AccountAnswers(~validate_risk_parameters(rpt, rat, dr)) :
                update_settings(rpt, rat, dr, acct)
       /\ UNCHANGED <<strategyVars, loopVars, dataVars>>
    \/ /\ ret.op = "idle"
       /\ \E d \in Dates, pos \in PositionInputs :
            \E acct \in AccountAnswers(d # today), hist \in HistoryInputs(d) :
                check_daily_limits(d, acct, pos, hist)
       /\ UNCHANGED <<strategyVars, loopVars, dataVars>>
    \/ /\ ret.op = "idle"
       /\ \E d \in Dates, pos \in PositionInputs, stop \in StopInputs :
            \E acct \in AccountAnswers(d # today), hist \in HistoryInputs(d) :
                \E acct2 \in SizeAccountAnswers(
                        asks_account(d, acct, pos, hist, stop)) :
                    \E sym \in SymbolAnswers(
                            asks_symbol(d, acct, pos, hist, stop, acct2)) :
                        calculate_position_size(d, acct, pos, hist, stop, acct2, sym)
       /\ UNCHANGED <<strategyVars, loopVars, dataVars>>
    \/ /\ ret.op = "idle"
       /\ \E new_trade_risk \in NewTradeRiskInputs, acct \in AggAccountInputs :
            \E pos \in PositionAnswers(acct.status = "ok") :
                \E symtab \in SymbolTableAnswers(
                        pos.status = "ok" /\ pos.items # <<>>) :
                    check_all_trades_risk(new_trade_risk, acct, pos, symtab)
       /\ UNCHANGED <<strategyVars, loopVars, dataVars>>
    \/ /\ ret.op = "idle"
       /\ \E trades \in TradesInputs : get_trade_statistics(trades)
       /\ UNCHANGED <<strategyVars, loopVars, dataVars>>
    \/ /\ Return
       /\ UNCHANGED <<strategyVars, loopVars, dataVars>>

Spec == Init /\ [][Next]_vars

\* The strategies and the client on their own: the RiskManager is not
\* called.
NextStrategy ==
    \/ /\ sret.op = "idle"
       /\ \E ok \in BOOLEAN : connect(ok)
       /\ UNCHANGED <<riskState, ret, loopVars, dataVars>>
    \/ /\ sret.op = "idle"
       /\ disconnect
       /\ UNCHANGED <<riskState, ret, loopVars, dataVars>>
    \/ /\ sret.op = "idle"
       /\ \E variant \in Variants : enable(variant)
       /\ UNCHANGED <<riskState, ret, loopVars, dataVars>>
    \/ /\ sret.op = "idle"
       /\ \E variant \in Variants : disable(variant)
       /\ UNCHANGED <<riskState, ret, loopVars, dataVars>>
    \/ /\ sret.op = "idle"
       /\ \E variant \in Variants, len \in LenInputs :
            \E cols \in ColumnInputs(variant), frame \in FrameInputs(variant) :
                analyze(variant, len, cols, frame)
       /\ UNCHANGED <<riskState, ret, loopVars, dataVars>>
    \/ /\ StrategyReturn
       /\ UNCHANGED <<riskState, ret, loopVars, dataVars>>

SpecStrategy == Init /\ [][NextStrategy]_vars

\* The trading loop after set-up: the client connected or not, any of the
\* strategies enabled (enable and disconnect reach every such state), the
\* RiskManager at its defaults.
InitTrading ==
    /\ risk_per_trade = 1
    /\ risk_all_trades = 5
    /\ daily_risk = 10
    /\ daily_loss_limit = 0
    /\ daily_profit = 0
    /\ today = 0
    /\ ret = Idle
    /\ connected \in BOOLEAN
    /\ enabled \in [Variants -> BOOLEAN]
    /\ sret = StrategyIdle
    /\ InitLoop
    /\ InitData

NextLoop ==
    \/ \E selected \in BOOLEAN : start_trading(selected)
    \/ \E d \in Dates, acct \in LoopAccountInputs :
            \E hist \in HistoryInputs(d), sym \in LoopSymbolInputs :
                update_trading(d, acct, hist, sym)
    \/ TickReturn
    \/ stop_trading
    \/ \E m \in MarketInputs : NewBar(m)

SpecLoop == InitTrading /\ [][NextLoop]_vars

\* A client with or without a database, its cache empty, and the terminal.
InitHistory ==
    /\ risk_per_trade = 1
    /\ risk_all_trades = 5
    /\ daily_risk = 10
    /\ daily_loss_limit = 0
    /\ daily_profit = 0
    /\ today = 0
    /\ ret = Idle
    /\ InitStrategies
    /\ InitLoop
    /\ database \in BOOLEAN
    /\ cache = [k \in Keys |-> {}]
    /\ dret = DataIdle

NextHistory ==
    \/ /\ dret.op = "idle"
       /\ \E ok \in BOOLEAN : connect(ok)
       /\ UNCHANGED <<riskState, ret, loopVars, dataVars>>
    \/ /\ dret.op = "idle"
       /\ disconnect
       /\ UNCHANGED <<riskState, ret, loopVars, dataVars>>
    \/ /\ StrategyReturn
       /\ UNCHANGED <<riskState, ret, loopVars, dataVars>>
    \/ /\ dret.op = "idle"
       /\ \E key \in Keys, count \in CountInputs :
            \E term_ok \in BOOLEAN, db_ok \in BOOLEAN :
                get_historical_data(key, count, term_ok, db_ok)
       /\ UNCHANGED <<riskState, ret, enabled, sret,
                      is_running, market, acted, lastTick>>
    \/ /\ DataReturn
       /\ UNCHANGED <<riskState, ret, enabled, sret,
                      is_running, market, acted, lastTick>>
    \/ /\ CompleteBar
       /\ UNCHANGED <<riskState, ret, enabled, sret,
                      is_running, market, acted, lastTick>>

SpecHistory == InitHistory /\ [][NextHistory]_vars

-----------------------------------------------------------------------------
(* Claims *)

\* C1: in every state reachable by update_settings calls, accepted or
\* rejected, from the defaults (1, 5, 10), the stored percentages satisfy
\* 0 < risk_per_trade <= risk_all_trades <= daily_risk <= 100.
C1_PercentagesOrdered ==
    /\ 0 < risk_per_trade
    /\ risk_per_trade <= risk_all_trades
    /\ risk_all_trades <= daily_risk
    /\ daily_risk <= 100

\* An accepted update took effect although its daily-limit step failed.
C1_Witness ==
    /\ ret.op = "update_settings"
    /\ ret.exc = "RiskManagementError"
    /\ <<risk_per_trade, risk_all_trades, daily_risk>> = <<5, 100, 100>>

\* A triple update_settings has to reject.
InvalidTriple(a) ==
    \/ \E i \in 1 .. 3 : a[i] <= 0 \/ a[i] > 100
    \/ a[1] > a[2]
    \/ a[2] > a[3]

\* C2: update_settings with a value outside (0, 100], or with
\* risk_per_trade > risk_all_trades, or with risk_all_trades > daily_risk,
\* raises a validation error and leaves every RiskState field as it was.
C2_RejectedLeavesState ==
    [][(ret'.op = "update_settings" /\ InvalidTriple(ret'.args))
        => (ret'.exc = "RiskValidationError" /\ UNCHANGED riskState)]_vars

\* A rejection in a state that earlier calls had moved off the defaults.
C2_Witness ==
    /\ ret.op = "update_settings"
    /\ ret.exc = "RiskValidationError"
    /\ InvalidTriple(ret.args)
    /\ risk_per_trade = 5
    /\ daily_loss_limit # 0
    /\ today # 0

RECURSIVE ExactSum(_)
ExactSum(items) ==
    IF items = <<>> THEN 0 ELSE Head(items).profit + ExactSum(Tail(items))

RECURSIVE ExactSumOn(_, _)
ExactSumOn(items, d) ==
    IF items = <<>> THEN 0
    ELSE (IF Head(items).day = d THEN Head(items).profit ELSE 0)
         + ExactSumOn(Tail(items), d)

\* daily_profit + the P&L of all open positions + the P&L of the closed
\* trades dated today, as the last check_daily_limits call was given them.
ExactTotal == daily_profit + ExactSum(ret.pos.items)
                  + ExactSumOn(ret.hist.items, ret.date)

\* C4: check_daily_limits returns false if and only if
\* total <= -daily_loss_limit, where total = daily_profit + the sum of the
\* P&L of all open positions + the sum of the P&L of closed trades dated today.
C4_FalseIffLimitReached ==
    (ret.op = "check_daily_limits" /\ ret.exc = "none")
        => (ret.value = FALSE <=> ExactTotal <= -daily_loss_limit)

\* The last call was calculate_position_size and it returned a
\* PositionSizeResult.
Sized ==
    /\ ret.op = "calculate_position_size"
    /\ ret.exc = "none"
    /\ ret.value.kind = "Result"

\* C5: for every PositionSizeResult returned (positive stop distance,
\* min_volume <= max_volume, volume_step > 0), the volume is an integer
\* multiple of volume_step and min_volume <= volume <= max_volume.
C5_VolumeWithinConstraints ==
    (/\ Sized
     /\ ret.stop > 0
     /\ ret.sym.volume_min <= ret.sym.volume_max
     /\ ret.sym.volume_step > 0)
        => /\ ret.value.volume % ret.sym.volume_step = 0
           /\ ret.sym.volume_min <= ret.value.volume
           /\ ret.value.volume <= ret.sym.volume_max

\* C6: for every PositionSizeResult returned,
\* volume * stop_distance * tick_value <= risk_amount (both sides in cents).
C6_RiskWithinBudget ==
    Sized => ret.value.volume * ret.stop * ret.sym.trade_tick_value
                 <= ret.value.risk_amount

\* C7: calculate_position_size returns None, without an exception and
\* without asking for the symbol's volume limits, whenever the daily-limit
\* check returns false or the stop distance is <= 0.
C7_NoneOnLimitOrStop ==
    (/\ ret.op = "calculate_position_size"
     /\ ret.daily = "false" \/ ret.stop <= 0)
        => /\ ret.exc = "none"
           /\ ret.value.kind = "None"
           /\ ret.sym.status = "unread"

\* C8: calculate_position_size returns None, never raising and never
\* returning a volume, whenever the account snapshot is unavailable, the
\* symbol metadata is unavailable, or the symbol's tick value is zero.
C8_FailsClosed ==
    (/\ ret.op = "calculate_position_size"
     /\ \/ ret.acct2.status \in {"none", "raise"}
        \/ ret.sym.status \in {"none", "raise"}
        \/ ret.sym.status = "ok" /\ ret.sym.trade_tick_value = 0)
        => /\ ret.exc = "none"
           /\ ret.value.kind = "None"

\* C9: check_daily_limits and check_all_trades_risk never raise: each call
\* returns a boolean, and returns false when the account data it needs is
\* missing.
C9_ChecksNeverRaise ==
    ret.op \in {"check_daily_limits", "check_all_trades_risk"}
        => /\ ret.exc = "none"
           /\ ret.acct.status \in {"none", "raise"} => ret.value = FALSE

\* The sum over every open position of volume * current_price * tick_value,
\* as the last check_all_trades_risk call was given them (cents).
RECURSIVE ExactRisk(_, _)
ExactRisk(items, symtab) ==
    IF items = <<>> THEN 0
    ELSE Head(items).volume * Head(items).price_current
             * symtab[Head(items).symbol].trade_tick_value
         + ExactRisk(Tail(items), symtab)

\* C10: check_all_trades_risk(candidate) returns false if and only if the
\* sum over every open position of volume * current_price * tick_value, plus
\* the candidate, is >= equity * risk_all_trades / 100.
C10_AggregateRiskIff ==
    (/\ ret.op = "check_all_trades_risk"
     /\ ret.exc = "none"
     /\ ret.acct.status = "ok"
     /\ ret.pos.status = "ok")
        => (ret.value = FALSE
              <=> ExactRisk(ret.pos.items, ret.symtab) + ret.new_trade_risk
                      >= ret.acct.equity * risk_all_trades)

\* C11: RiskState is changed only by update_settings and by the day
\* rollover inside check_daily_limits: check_all_trades_risk and
\* get_trade_statistics leave all six fields unchanged, calculate_position_size
\* leaves the three percentages unchanged and, when its daily-limit check sees
\* the stored day, the other three too; so does check_daily_limits on the
\* stored day, whatever the calls return.
C11_OnlyUpdateAndRolloverWrite ==
    [][/\ ret'.op \in {"check_all_trades_risk", "get_trade_statistics", "idle"}
          => UNCHANGED riskState
       /\ ret'.op = "calculate_position_size"
          => /\ UNCHANGED <<risk_per_trade, risk_all_trades, daily_risk>>
             /\ ret'.date = today
                => UNCHANGED <<daily_loss_limit, daily_profit, today>>
       /\ ret'.op = "check_daily_limits"
          => /\ UNCHANGED <<risk_per_trade, risk_all_trades, daily_risk>>
             /\ ret'.date = today
                => UNCHANGED <<daily_loss_limit, daily_profit, today>>]_vars

\* A sizing that returned a volume, and an aggregate check on a readable
\* account, in a state that earlier calls had moved off the defaults.
C11_Witness ==
    /\ risk_per_trade = 5
    /\ daily_loss_limit = 100000
    /\ \/ ret.op = "calculate_position_size" /\ ret.value.kind = "Result"
       \/ ret.op = "check_all_trades_risk" /\ ret.acct.status = "ok"

\* C12: while the latest completed bar of (EURUSD, H1) is the same, each
\* strategy emits, and the loop hands to _process_signal, at most one signal
\* for that bar, however many ticks run.
C12_OneSignalPerBar ==
    \A v \in Variants : acted[v] <= 1

\* The BUY and the SELL conditions analyze evaluated on the rows it read.
BuyConditions ==
    IF sret.strategy = "Sniper"
        THEN sniper_buy(sret.frame.last, sret.frame.prev)
    ELSE IF sret.strategy = "SmartSniper"
        THEN smart_sniper_buy(sret.frame.last, sret.frame.prev)
    ELSE smart_money_buy(sret.frame.last, sret.frame.prev, sret.frame.support)

SellConditions ==
    IF sret.strategy = "Sniper"
        THEN sniper_sell(sret.frame.last, sret.frame.prev)
    ELSE IF sret.strategy = "SmartSniper"
        THEN smart_sniper_sell(sret.frame.last, sret.frame.prev)
    ELSE smart_money_sell(sret.frame.last, sret.frame.prev,
                          sret.frame.resistance)

\* C13: for every variant and every bar on which the BUY conditions and the
\* SELL conditions are both true, analyze returns None.
C13_BothMeansNone ==
    (sret.op = "analyze" /\ sret.gate = "rows" /\ BuyConditions
     /\ SellConditions)
        => sret.value.action = "None"

\* C14: whatever happens while analyze computes or reads indicators (a
\* missing column, an undefined value), no variant lets an exception reach
\* its caller: analyze returns.
C14_AnalyzeNeverRaises ==
    sret.op = "analyze" => sret.exc = "none"

\* C15: a strategy is disabled when constructed, and a call of analyze on a
\* disabled strategy returns None, raises nothing and changes neither the
\* enabled flags nor the connection, for every variant and every frame.
C15_DisabledReturnsNone ==
    /\ \A v \in Variants : ~enabled[v]
    /\ [][(sret'.op = "analyze" /\ ~enabled[sret'.strategy])
            => /\ sret'.value = NoSignal
               /\ sret'.exc = "none"
               /\ sret'.gate = "disabled"
               /\ UNCHANGED <<enabled, connected>>]_vars

\* A disabled SmartSniper given 100 bars of rates, while the client is
\* connected and another strategy is enabled.
C15_Witness ==
    /\ sret.op = "analyze"
    /\ sret.strategy = "SmartSniper"
    /\ ~enabled["SmartSniper"]
    /\ enabled["Sniper"]
    /\ connected
    /\ sret.len = 100
    /\ sret.cols = RateColumns
    /\ sret.value = NoSignal

\* C16: an enabled variant rejects its input as insufficient history exactly
\* when len(bars) < get_required_history_size().
C16_GateIsRequiredSize ==
    (sret.op = "analyze" /\ sret.gate # "disabled")
        => (sret.gate = "short"
            <=> sret.len < get_required_history_size(sret.strategy))

\* C17: an enabled Sniper given enough bars whose columns are those of its
\* own calculate_indicators, with fast SMA above slow SMA, close above slow
\* SMA, ADX > 25, %K crossing above %D and a positive, growing MACD
\* histogram on the last bar, returns BUY with stop_loss = low - 2 * ATR
\* and take_profit = close + 3 * ATR.
C17_MomentumBuy ==
    LET last == sret.frame.last
        prev == sret.frame.prev
    IN  (/\ sret.op = "analyze"
         /\ sret.strategy = "Sniper"
         /\ sret.gate \notin {"disabled", "short"}
         /\ sret.cols = calculate_indicators("Sniper", RateColumns).cols
         /\ FGt(last.sma_fast, last.sma_slow)
         /\ FGt(last.close, last.sma_slow)
         /\ FGt(last.adx, 25)
         /\ FGt(last.stoch_k, last.stoch_d)
         /\ FLt(prev.stoch_k, prev.stoch_d)
         /\ FGt(last.macd_hist, 0)
         /\ FGt(last.macd_hist, prev.macd_hist))
        => sret.value = Signal("BUY", last.close, last.low - 2 * last.atr,
                               last.close + 3 * last.atr)

\* C18: every signal of the SmartSniper variant satisfies the whole Sniper
\* rule in its direction (fast/slow SMA relation with the close on the same
\* side of the slow SMA, ADX > 25, %K/%D crossover, MACD histogram
\* expanding) and has the close on the trend side of VWAP and
\* volume_ratio > 1.5.
C18_SmartSniperRefinesSniper ==
    LET last == sret.frame.last
        prev == sret.frame.prev
    IN  (sret.op = "analyze" /\ sret.strategy = "SmartSniper")
        => /\ sret.value.action = "BUY"
              => /\ FGt(last.sma_fast, last.sma_slow)
                 /\ FGt(last.close, last.sma_slow)
                 /\ FGt(last.adx, 25)
                 /\ FGt(last.stoch_k, last.stoch_d)
                 /\ FLt(prev.stoch_k, prev.stoch_d)
                 /\ FGt(last.macd_hist, 0)
                 /\ FGt(last.macd_hist, prev.macd_hist)
                 /\ FGt(last.close, last.vwap)
                 /\ 100 * last.real_volume > 150 * last.volume_ma
           /\ sret.value.action = "SELL"
              => /\ FLt(last.sma_fast, last.sma_slow)
                 /\ FLt(last.close, last.sma_slow)
                 /\ FGt(last.adx, 25)
                 /\ FLt(last.stoch_k, last.stoch_d)
                 /\ FGt(prev.stoch_k, prev.stoch_d)
                 /\ FLt(last.macd_hist, 0)
                 /\ FLt(last.macd_hist, prev.macd_hist)
                 /\ FLt(last.close, last.vwap)
                 /\ 100 * last.real_volume > 150 * last.volume_ma

\* C19: every signal of the SmartMoney variant has the last bar within
\* 2 * ATR of the 20-bar support (BUY) or resistance (SELL), a pin-bar or an
\* engulfing pattern in the direction of the signal on the last bar,
\* 30 < RSI < 70 and volume_ratio > 1.5.
C19_SmartMoneyAtLevelWithPattern ==
    LET last == sret.frame.last
        prev == sret.frame.prev
    IN  (sret.op = "analyze" /\ sret.strategy = "SmartMoney")
        => /\ sret.value.action = "BUY"
              => /\ Abs(last.low - sret.frame.support) < 2 * last.atr
                 /\ \/ is_pinbar(last)
                       /\ lower_shadow(last) > upper_shadow(last)
                    \/ is_engulfing(last, prev) /\ last.close > last.open
                 /\ 30 < last.rsi /\ last.rsi < 70
                 /\ 100 * last.real_volume > 150 * last.volume_ma
           /\ sret.value.action = "SELL"
              => /\ Abs(last.high - sret.frame.resistance) < 2 * last.atr
                 /\ \/ is_pinbar(last)
                       /\ upper_shadow(last) > lower_shadow(last)
                    \/ is_engulfing(last, prev) /\ last.close < last.open
                 /\ 30 < last.rsi /\ last.rsi < 70
                 /\ 100 * last.real_volume > 150 * last.volume_ma

\* C20: on a frame of flat bars (open = high = low = close) with zero volume
\* on every bar, %K, %D and the volume ratio at the last bar are undefined,
\* no exception is raised, and each enabled variant returns None.
C20_FlatBarsGiveNone ==
    (/\ sret.op = "analyze"
     /\ sret.gate \notin {"disabled", "short"}
     /\ sret.frame = FlatFrame(100, 0, 100))
    => /\ sret.frame.last.stoch_k = NaN
       /\ sret.frame.last.stoch_d = NaN
       /\ volume_ratio(sret.frame.last) = NaN
       /\ sret.exc = "none"
       /\ sret.value = NoSignal

\* C21: on success calculate_position_size reports
\* risk_amount = equity * risk_per_trade / 100 exactly (cents) and derives
\* the volume before clamping as risk_amount / (stop_distance * tick_value)
\* (hundredths of a lot, raw.c / 10^raw.k).
C21_ExactRiskAmountAndRawVolume ==
    Sized =>
        /\ ret.value.risk_amount = ret.acct2.equity * risk_per_trade
        /\ (ret.value.raw.c * (ret.stop * ret.sym.trade_tick_value))
               % Pow10(ret.value.raw.k) = 0
        /\ (ret.value.raw.c * (ret.stop * ret.sym.trade_tick_value))
               \div Pow10(ret.value.raw.k) = ret.value.risk_amount

C23_LimitStopsLoop ==
    [][/\ (lastTick'.op = "update_trading" /\ lastTick'.daily = "false")
          => /\ ~is_running'
             /\ lastTick'.outcome = NotReached
             /\ acted' = acted
       /\ (lastTick'.op = "update_trading" /\ lastTick.op = "idle")
          => is_running
       /\ (~is_running /\ is_running') => lastTick'.op = "start_trading"]_vars

\* The limit stopped a loop whose SmartSniper strategy had a BUY to give.
C23_Witness ==
    /\ lastTick.op = "update_trading"
    /\ lastTick.daily = "false"
    /\ ~is_running
    /\ connected
    /\ enabled["SmartSniper"]
    /\ market = Market("ok", 100, RateColumns, BuyBars)

\* C24: enable() sets the enabled flag of its strategy only if the client
\* is connected at the time of the call and otherwise leaves every flag as
\* it was; disable() leaves its strategy disabled whatever the connection
\* state; no other operation turns a flag on.
C24_EnableNeedsConnection ==
    [][/\ sret'.op = "enable" /\ sret.op = "idle"
          => enabled' = IF connected
                        THEN [enabled EXCEPT ![sret'.strategy] = TRUE]
                        ELSE enabled
       /\ sret'.op = "disable" /\ sret.op = "idle"
          => enabled' = [enabled EXCEPT ![sret'.strategy] = FALSE]
       /\ (\E v \in Variants : ~enabled[v] /\ enabled'[v])
          => sret'.op = "enable" /\ connected]_vars

\* enable() was refused on a disconnected client after another strategy had
\* been enabled on the connected one.
C24_Witness ==
    /\ sret.op = "enable"
    /\ ~connected
    /\ ~enabled[sret.strategy]
    /\ \E v \in Variants : enabled[v]

\* C25: update_settings is all-or-nothing: when it fails for any reason,
\* the unreadable account of an accepted update included, the three
\* percentages and daily_loss_limit keep the values they had.
C25_UpdateAllOrNothing ==
    [][(ret'.op = "update_settings" /\ ret.op = "idle" /\ ret'.exc # "none")
        => UNCHANGED <<risk_per_trade, risk_all_trades, daily_risk,
                       daily_loss_limit>>]_vars

\* C26: while daily_loss_limit is the 0 of construction, check_daily_limits
\* returns false whenever the day's total P&L is <= 0, and
\* calculate_position_size then returns None.
C26_ZeroLimitBlocks ==
    (/\ ret.op \in {"check_daily_limits", "calculate_position_size"}
     /\ daily_loss_limit = 0
     /\ ExactTotal <= 0)
        => /\ ret.exc = "none"
           /\ ret.op = "check_daily_limits" => ret.value = FALSE
           /\ ret.op = "calculate_position_size"
                 => ret.daily = "false" /\ ret.value.kind = "None"

\* C27: when the account cannot be read on a day change, today has
\* advanced and daily_profit is reset while daily_loss_limit keeps its
\* value; a call on the stored date does not ask for the account and leaves
\* the limit; the limit changes only on a day change with a readable
\* account or in a successful update_settings.
C27_StaleLimitAfterFailedRollover ==
    [][/\ (/\ ret'.op \in {"check_daily_limits", "calculate_position_size"}
           /\ ret.op = "idle"
           /\ ret'.date # today
           /\ ret'.acct.status # "ok")
          => /\ today' = ret'.date
             /\ daily_profit' = 0
             /\ daily_loss_limit' = daily_loss_limit
             /\ ret'.exc # "none"
       /\ (/\ ret'.op \in {"check_daily_limits", "calculate_position_size"}
           /\ ret.op = "idle"
           /\ ret'.date = today)
          => /\ ret'.acct.status = "unread"
             /\ daily_loss_limit' = daily_loss_limit
       /\ daily_loss_limit' # daily_loss_limit
          => \/ ret'.op = "update_settings" /\ ret'.exc = "none"
             \/ /\ ret'.op \in {"check_daily_limits", "calculate_position_size"}
                /\ ret'.rollover
                /\ ret'.acct.status = "ok"]_vars

\* The second day change found the account unreadable: the day advanced
\* and the limit is the one computed the day before.
C27_Witness ==
    /\ ret.op = "check_daily_limits"
    /\ ret.rollover
    /\ ret.acct.status = "none"
    /\ ret.exc = "RiskManagementError"
    /\ today = 2
    /\ daily_profit = 0
    /\ daily_loss_limit = 100000

\* C28: disconnect() and connect(), failed or not, change no strategy's
\* enabled flag, and analyze of an enabled strategy is not stopped at the
\* enabled gate whatever the connection state.
C28_DisconnectKeepsEnabled ==
    [][/\ (sret'.op \in {"connect", "disconnect"} /\ sret.op = "idle")
          => enabled' = enabled
       /\ (sret'.op = "analyze" /\ sret.op = "idle" /\ enabled[sret'.strategy])
          => sret'.gate # "disabled"]_vars

\* A strategy enabled on the connected client gave a signal after the
\* client was disconnected: enabled does not imply connected.
C28_Witness ==
    /\ sret.op = "analyze"
    /\ ~connected
    /\ enabled[sret.strategy]
    /\ sret.gate = "rows"
    /\ sret.value.action = "BUY"

C30_CacheAlwaysWins ==
    [][(/\ dret'.op = "get_historical_data" /\ dret.op = "idle"
        /\ database
        /\ cache[dret'.key] # {})
        => /\ dret'.result.exc = "none"
           /\ dret'.result.status = "ok"
           /\ dret'.result.rows = LastRows(cache[dret'.key], dret'.count)
           /\ ~dret'.result.terminal
           /\ cache' = cache]_vars

\* C30 as amended: with a database attached, on a connected client and
\* while the database can be read, get_historical_data returns the cached
\* bars (the last count of them, in the cache's columns) whenever the cache
\* holds at least one bar for the key, without consulting the terminal; a
\* disconnected client raises and an unreadable database gives None, both
\* without consulting the terminal; the bars cached for a key never change
\* once there is one, so no bar outside them is returned.
C30_CacheWinsWhileConnected ==
    [][/\ (/\ dret'.op = "get_historical_data" /\ dret.op = "idle"
           /\ database
           /\ cache[dret'.key] # {})
          => /\ ~dret'.result.terminal
             /\ cache' = cache
             /\ \A i \in 1 .. Len(dret'.result.rows) :
                    dret'.result.rows[i] \in cache[dret'.key]
             /\ IF ~connected
                THEN dret'.result.exc = "TradingConnectionError"
                ELSE /\ dret'.result.exc = "none"
                     /\ IF dret'.db = "ok"
                        THEN /\ dret'.result.status = "ok"
                             /\ dret'.result.cols = CacheColumns
                             /\ dret'.result.rows =
                                    LastRows(cache[dret'.key], dret'.count)
                        ELSE dret'.result.status = "None"
       /\ \A k \in Keys : cache[k] # {} => cache'[k] = cache[k]]_vars

\* One bar was cached at bar 0; two bars later a request for 100 bars is
\* answered with that bar alone.
C30_Witness ==
    /\ dret.op = "get_historical_data"
    /\ database
    /\ connected
    /\ bar = 2
    /\ dret.count = 100
    /\ dret.cached = {0}
    /\ dret.result.status = "ok"
    /\ dret.result.rows = <<0>>
    /\ ~dret.result.terminal

====
